---- MODULE Spec2Model ----
(***************************************************************************)
(* gmail-download: gmail_query.query, gmail_query.parse_body and           *)
(* gmail_query.get_next_part of src/gmail_download/gmail_download.py.      *)
(*                                                                         *)
(* Python values are represented as follows.                               *)
(*   - None is the string None (below); f-strings render it as "None".     *)
(*   - A MIME part (a dict of the message-get response) is a record        *)
(*       [mimeType, hasParts, parts, body]                                 *)
(*     where hasParts says whether the dict has the key 'parts', parts is  *)
(*     [isList, items] (a list, or a single dict held as the one item),    *)
(*     and body is [hasBody, hasData, data]: whether the part has the key  *)
(*     'body', whether that dict has the key 'data', and the payload, a    *)
(*     sequence of one-character strings.                                  *)
(*   - Text is [lit, cps]: a literal of the program (lit) or the code      *)
(*     points of a decoded payload (cps).                                  *)
(*   - A raised exception is a field raised/ok of the value an operator    *)
(*     returns.                                                            *)
(***************************************************************************)
EXTENDS Integers, Sequences, FiniteSets, TLC

\* ------------------------------------------------------------------ bounds

\* Largest number of parts (nodes) of a MIME tree.
MaxNodes == 4
\* Largest value of parse_body's depth argument that is tried.
MaxDepth == 3
\* Longest body payload (in characters) that is tried.
MaxPayloadLen == 4
\* Largest number of messages the message-list endpoint returns.
MaxMsgs == 3

\* ---------------------------------------------------------- Python values

None == "<None>"

Lit(s) == [lit |-> s, cps |-> <<>>]
Decoded(cps) == [lit |-> "", cps |-> cps]

\* parse_body's default for depth.
DefaultDepth == 10
DefaultPrefer == "text/plain"

\* ------------------------------------------------- base64.urlsafe_b64decode

B64Chars ==
  << "A","B","C","D","E","F","G","H","I","J","K","L","M","N","O","P",
     "Q","R","S","T","U","V","W","X","Y","Z","a","b","c","d","e","f",
     "g","h","i","j","k","l","m","n","o","p","q","r","s","t","u","v",
     "w","x","y","z","0","1","2","3","4","5","6","7","8","9","+","/" >>

\* bytes.translate(_urlsafe_decode_translation): '-' -> '+', '_' -> '/'.
UrlsafeTranslate(c) == IF c = "-" THEN "+" ELSE IF c = "_" THEN "/" ELSE c

\* binascii's table_a2b_base64: the 6-bit value of an alphabet character,
\* 64 for every other character.
B64Value(c) ==
  IF \E k \in 1..64 : B64Chars[k] = c
  THEN (CHOOSE k \in 1..64 : B64Chars[k] = c) - 1
  ELSE 64

\* binascii.a2b_base64 with strict_mode off, as base64.b64decode calls it:
\* characters outside the alphabet are skipped; a completed pad sequence
\* ends the parse; input that ends inside a quad is an error.
RECURSIVE a2b_base64(_, _, _, _, _, _)
a2b_base64(s, k, quad_pos, leftchar, pads, out) ==
  IF k > Len(s) THEN [ok |-> quad_pos = 0, bytes |-> out]
  ELSE IF s[k] = "=" THEN
    IF quad_pos >= 2 /\ quad_pos + pads + 1 >= 4
    THEN [ok |-> TRUE, bytes |-> out]
    ELSE a2b_base64(s, k + 1, quad_pos, leftchar,
                    IF quad_pos >= 2 THEN pads + 1 ELSE pads, out)
  ELSE LET v == B64Value(s[k]) IN
    IF v >= 64 THEN a2b_base64(s, k + 1, quad_pos, leftchar, pads, out)
    ELSE CASE quad_pos = 0 -> a2b_base64(s, k + 1, 1, v, 0, out)
           [] quad_pos = 1 -> a2b_base64(s, k + 1, 2, v % 16, 0,
                                         Append(out, leftchar * 4 + v \div 16))
           [] quad_pos = 2 -> a2b_base64(s, k + 1, 3, v % 4, 0,
                                         Append(out, leftchar * 16 + v \div 4))
           [] OTHER        -> a2b_base64(s, k + 1, 0, 0, 0,
                                         Append(out, leftchar * 64 + v))

\* A decoder that accepts a payload stopping inside a quad.
b64decode_unpadded(s) ==
  [a2b_base64([k \in 1..Len(s) |-> UrlsafeTranslate(s[k])], 1, 0, 0, 0, <<>>)
     EXCEPT !.ok = TRUE]

urlsafe_b64decode(s) ==
  a2b_base64([k \in 1..Len(s) |-> UrlsafeTranslate(s[k])], 1, 0, 0, 0, <<>>)

\* ------------------------------------------------------ bytes.decode('utf-8')

IsCont(b, k, lo, hi) == k <= Len(b) /\ b[k] >= lo /\ b[k] <= hi

\* The strict UTF-8 decoder: the code points of b, or ok = FALSE
\* (UnicodeDecodeError) at the first ill-formed sequence.
RECURSIVE utf8_decode(_, _, _)
utf8_decode(b, k, out) ==
  IF k > Len(b) THEN [ok |-> TRUE, cps |-> out]
  ELSE LET c == b[k] IN
    IF c < 128 THEN utf8_decode(b, k + 1, Append(out, c))
    ELSE IF c >= 194 /\ c <= 223 THEN
      IF IsCont(b, k + 1, 128, 191)
      THEN utf8_decode(b, k + 2, Append(out, (c - 192) * 64 + (b[k + 1] - 128)))
      ELSE [ok |-> FALSE, cps |-> out]
    ELSE IF c >= 224 /\ c <= 239 THEN
      IF /\ IsCont(b, k + 1, IF c = 224 THEN 160 ELSE 128,
                             IF c = 237 THEN 159 ELSE 191)
         /\ IsCont(b, k + 2, 128, 191)
      THEN utf8_decode(b, k + 3,
             Append(out, (c - 224) * 4096 + (b[k + 1] - 128) * 64
                         + (b[k + 2] - 128)))
      ELSE [ok |-> FALSE, cps |-> out]
    ELSE IF c >= 240 /\ c <= 244 THEN
      IF /\ IsCont(b, k + 1, IF c = 240 THEN 144 ELSE 128,
                             IF c = 244 THEN 143 ELSE 191)
         /\ IsCont(b, k + 2, 128, 191)
         /\ IsCont(b, k + 3, 128, 191)
      THEN utf8_decode(b, k + 4,
             Append(out, (c - 240) * 262144 + (b[k + 1] - 128) * 4096
                         + (b[k + 2] - 128) * 64 + (b[k + 3] - 128)))
      ELSE [ok |-> FALSE, cps |-> out]
    ELSE [ok |-> FALSE, cps |-> out]

\* base64.urlsafe_b64decode(str(body).encode('utf-8')).decode('utf-8')
\* (lines 311-312); the payload characters are ASCII, so encode keeps them.
DecodeBody(data) ==
  LET bin == urlsafe_b64decode(data) IN
  IF ~bin.ok THEN [ok |-> FALSE, text |-> Decoded(<<>>)]
  ELSE LET t == utf8_decode(bin.bytes, 1, <<>>) IN
       IF t.ok THEN [ok |-> TRUE, text |-> Decoded(t.cps)]
       ELSE [ok |-> FALSE, text |-> Decoded(<<>>)]

\* ---------------------------------------------------------- get_next_part

\* types of parse_body (line 291), also get_next_part's default for allowed.
types == {"text/html", "text/plain"}

Placeholder == Lit("Message body could not be retrieved.")

AsDict(n) == [isList |-> FALSE, items |-> <<n>>]
AsList(ns) == [isList |-> TRUE, items |-> ns]

\* Lines 367-368: a value that is not a list becomes a one-element list.
CoerceToList(parts) == AsList(parts.items)

\* msg[0][what] of line 365: the children of the first sibling.
\* IndexError on an empty list, KeyError on a part without the key.
\* A descent into the children of the last sibling instead of the first.
DescendLastSibling(items) ==
  IF items = <<>> \/ ~items[Len(items)].hasParts
  THEN [raised |-> TRUE, parts |-> AsList(items), found |-> FALSE]
  ELSE [raised |-> FALSE, parts |-> CoerceToList(items[Len(items)].parts),
        found |-> FALSE]

DescendList(items) ==
  IF items = <<>> \/ ~items[1].hasParts
  THEN [raised |-> TRUE, parts |-> AsList(items), found |-> FALSE]
  ELSE [raised |-> FALSE, parts |-> CoerceToList(items[1].parts),
        found |-> FALSE]

\* get_next_part(msg, allowed=allowed) with what='parts', search='mimeType',
\* negation=False (lines 345-370). The result is (parts, found), or raised.
get_next_part(msg, allowed) ==
  IF ~msg.isList THEN
    LET m == msg.items[1] IN
    IF m.mimeType \in allowed
    THEN [raised |-> FALSE, parts |-> AsList(<<m>>), found |-> TRUE]
    ELSE IF ~m.hasParts
    THEN [raised |-> TRUE, parts |-> msg, found |-> FALSE]
    ELSE [raised |-> FALSE, parts |-> CoerceToList(m.parts), found |-> FALSE]
  ELSE
    IF \E k \in 1..Len(msg.items) : msg.items[k].mimeType \in allowed
    THEN [raised |-> FALSE, parts |-> msg, found |-> TRUE]
    ELSE DescendList(msg.items)

\* -------------------------------------------------------------- parse_body

\* The while loop of lines 300-303. An exception inside get_next_part
\* leaves parts, found and i as they were before the call.
RECURSIVE WalkLoop(_, _, _, _)
WalkLoop(parts, found, i, depth) ==
  IF ~found /\ i < depth THEN
    LET r == get_next_part(parts, types) IN
    IF r.raised
    THEN [raised |-> TRUE, parts |-> parts, found |-> found, i |-> i]
    ELSE WalkLoop(r.parts, r.found, i + 1, depth)
  ELSE [raised |-> FALSE, parts |-> parts, found |-> found, i |-> i]

\* The for loop of lines 305-307: the index of the part p is bound to when
\* the loop ends, 0 when the list is empty and p stays unbound.
SelectPart(items, prefer) ==
  IF \E k \in 1..Len(items) : items[k].mimeType = prefer
  THEN CHOOSE k \in 1..Len(items) :
         /\ items[k].mimeType = prefer
         /\ \A j \in 1..(k - 1) : items[j].mimeType # prefer
  ELSE Len(items)

\* parse_body(msg, prefer, depth), lines 291-321, for a msg that has the key
\* 'payload' and depth >= 1. The result holds the locals at the return:
\*   raised  the Warning of line 293 left the function,
\*   excepted  the except clause of lines 313-315 ran,
\*   idx  the index in parts of the part p whose payload was read (0: none),
\*   noted  the note of lines 317-319 was printed.
parse_body(msg, prefer, depth) ==
  IF prefer \notin types THEN
    [raised |-> TRUE, excepted |-> FALSE, found |-> FALSE,
     parts |-> AsDict(msg.payload), idx |-> 0, pmime |-> None,
     plain |-> Lit(None), noted |-> FALSE]
  ELSE
    LET w    == WalkLoop(AsDict(msg.payload), FALSE, 0, depth)
        k    == IF w.raised THEN 0 ELSE SelectPart(w.parts.items, prefer)
        p    == w.parts.items[k]
        hasD == k > 0 /\ p.body.hasBody /\ p.body.hasData
        dec  == DecodeBody(p.body.data)
        exc  == w.raised \/ ~hasD \/ ~dec.ok
        pm   == IF exc THEN "text/plain" ELSE p.mimeType
    IN [raised |-> FALSE, excepted |-> exc, found |-> w.found,
        parts |-> w.parts, idx |-> IF w.raised THEN 0 ELSE k,
        pmime |-> pm,
        plain |-> IF exc THEN Placeholder ELSE dec.text,
        noted |-> w.found /\ pm # prefer]

\* ------------------------------------------------------- message-get inputs

\* The content types of the parts tried: a part with children is a
\* multipart, a part without is one of the two text types or an attachment.
LeafTypes == {"text/plain", "text/html", "application/pdf"}
ContainerType == "multipart/mixed"

NoBody == [hasBody |-> FALSE, hasData |-> FALSE, data |-> <<>>]
NoData == [hasBody |-> TRUE, hasData |-> FALSE, data |-> <<>>]
WithData(s) == [hasBody |-> TRUE, hasData |-> TRUE, data |-> s]

\* Characters of the payloads tried: two of the alphabet ("_" is the URL-safe
\* form of "/"), the pad, and one outside the alphabet.
PayloadChars == {"Q", "_", "=", "*"}

RECURSIVE SeqsOfLen(_, _)
SeqsOfLen(S, n) ==
  IF n = 0 THEN {<<>>}
  ELSE {Append(s, c) : s \in SeqsOfLen(S, n - 1), c \in S}

Payloads == UNION {SeqsOfLen(PayloadChars, n) : n \in 0..MaxPayloadLen}

\* "QQ==" is the payload of the one-character text "A".
SampleBodies == {NoBody, WithData(<<"Q", "Q", "=", "=">>)}
AllBodies == {NoBody, NoData} \cup {WithData(s) : s \in Payloads}

\* The MIME trees with exactly n parts, every part carrying the body b.
\* parse_body reads the body of one part only, the one it selects, so trees
\* whose parts carry different bodies behave like one of these. A multipart
\* holds its children as a list (possibly empty) or, when it has one child
\* without children, as that child itself.
RECURSIVE TreesOfSize(_, _), ForestsOfSize(_, _)
TreesOfSize(n, b) ==
  IF n = 1
  THEN {[mimeType |-> t, hasParts |-> FALSE, parts |-> AsList(<<>>),
         body |-> b] : t \in LeafTypes}
       \cup {[mimeType |-> ContainerType, hasParts |-> TRUE,
              parts |-> AsList(<<>>), body |-> b]}
  ELSE {[mimeType |-> ContainerType, hasParts |-> TRUE, parts |-> ps,
         body |-> b] :
          ps \in {AsList(f) : f \in ForestsOfSize(n - 1, b)}
                 \cup (IF n = 2 THEN {AsDict(c) : c \in TreesOfSize(1, b)}
                       ELSE {})}
ForestsOfSize(k, b) ==
  IF k = 0 THEN {<<>>}
  ELSE UNION {{<<t>> \o f : t \in TreesOfSize(j, b),
                            f \in ForestsOfSize(k - j, b)} : j \in 1..k}

TreesUpTo(n, b) == UNION {TreesOfSize(j, b) : j \in 1..n}

\* The calls of parse_body that are tried: every tree with the default
\* prefer and each depth; every payload on the one-part messages; the other
\* values of prefer on the small trees.
BodyCalls ==
  {[msg |-> [payload |-> t], prefer |-> DefaultPrefer, depth |-> d] :
     t \in UNION {TreesUpTo(MaxNodes, b) : b \in SampleBodies},
     d \in 1..MaxDepth}
  \cup
  {[msg |-> [payload |-> t], prefer |-> DefaultPrefer, depth |-> DefaultDepth] :
     t \in UNION {TreesUpTo(1, b) : b \in AllBodies}}
  \cup
  {[msg |-> [payload |-> t], prefer |-> pr, depth |-> DefaultDepth] :
     t \in UNION {TreesUpTo(2, b) : b \in SampleBodies},
     pr \in {"text/html", "text/rtf"}}

\* --------------------------------------------------- dates and time zones

\* The calendar: str(date) of the day with index d is IsoDates[d].
IsoDates ==
  << "2017-12-31", "2018-01-01", "2018-01-02", "2018-01-03", "2018-01-04",
     "2018-01-05" >>

\* str(d) of a datetime.date.
IsoOf(d) == IsoDates[d]

\* date_parse(s).date() of an ISO 8601 date string.
date_parse_iso(s) == CHOOSE d \in 1..Len(IsoDates) : IsoDates[d] = s

\* The UTC offset, in seconds, of tz.gettz(tz_locale).
TzOffset(tz_locale) == IF tz_locale = "America/New_York" THEN -18000 ELSE 0
TzName(tz_locale) == IF tz_locale = "America/New_York" THEN "EST" ELSE "UTC"

\* date_parse of a Date header: the instant, in seconds since the start of
\* day 1 (2017-12-31) UTC.
date_parse_header(s) ==
  CASE s = "Tue, 2 Jan 2018 02:00:05 +0000" -> 2 * 86400 + 2 * 3600 + 5
    [] s = "Mon, 1 Jan 2018 21:00:40 -0500" -> 2 * 86400 + 2 * 3600 + 40
    [] s = "Tue, 2 Jan 2018 12:00:00 +0000" -> 2 * 86400 + 12 * 3600

\* Lines 165-166: the instant of the Date header moved to the zone and
\* formatted "%A %b %d, %Y, %I:%M %p %Z".
\* The string names the day, the hour and minute and the zone: no seconds.
RenderDate(date_header, tz_locale) ==
  LET local == date_parse_header(date_header) + TzOffset(tz_locale) IN
  [day |-> local \div 86400 + 1,
   minute |-> (local % 86400) \div 60,
   zone |-> TzName(tz_locale)]

\* date_parse of a string RenderDate made: a datetime of that day and minute.
date_parse_rendered(r) == [day |-> r.day, minute |-> r.minute, second |-> 0]

\* str() of that datetime, "YYYY-MM-DD HH:MM:SS".
StrDatetime(dt) == <<IsoOf(dt.day), dt.minute, dt.second>>

\* ------------------------------------------------------------ search string

Lower(s) ==
  CASE s = "INBOX"        -> "inbox"
    [] s = "Work"         -> "work"
    [] s = "To"           -> "to"
    [] s = "From"         -> "from"
    [] s = "CC"           -> "cc"
    [] s = "Subject"      -> "subject"
    [] s = "Date"         -> "date"
    [] s = "Thread-Topic" -> "thread-topic"
    [] OTHER              -> s

\* Lines 133-140. The string is held as the sequence of its space-separated
\* clauses, each clause as <<prefix, value>>.
\* A search string that carries the size clause whatever att_get is.
SearchStringSmallerAlways(begin_date, end_date, label, g_query, att_get, max_size) ==
  <<  <<"after:", begin_date>>, <<"before:", end_date>>  >>
  \o (IF label # None THEN << <<"label:", Lower(label)>> >> ELSE <<>>)
  \o (IF g_query # None THEN << <<"", g_query>> >> ELSE <<>>)
  \o << <<"smaller:", ToString(max_size)>> >>

SearchString(begin_date, end_date, label, g_query, att_get, max_size) ==
  <<  <<"after:", begin_date>>, <<"before:", end_date>>  >>
  \o (IF label # None THEN << <<"label:", Lower(label)>> >> ELSE <<>>)
  \o (IF g_query # None THEN << <<"", g_query>> >> ELSE <<>>)
  \o (IF att_get THEN << <<"smaller:", ToString(max_size)>> >> ELSE <<>>)

\* Lines 127-131: the two dates as strings. With end_date an ISO string,
\* line 131 adds the int 1 to a datetime.date, which raises TypeError.
EndDate(end_date, today) ==
  IF end_date = "today"
  THEN [raised |-> FALSE, value |-> IsoOf(today + 1)]
  ELSE [raised |-> TRUE, value |-> None]

\* ------------------------------------------------------------------ headers

RequiredHeaders == {"date", "to", "from", "subject"}

\* Lines 161-163: names lower-cased, the last occurrence of a name wins.
HeaderDict(headers) ==
  [n \in {Lower(headers[k].name) : k \in 1..Len(headers)} |->
     LET last == CHOOSE k \in 1..Len(headers) :
                   /\ Lower(headers[k].name) = n
                   /\ \A j \in (k + 1)..Len(headers) : Lower(headers[j].name) # n
     IN headers[last].value]

\* header.get(name)
HeaderGet(header, name) == IF name \in DOMAIN header THEN header[name] ELSE None

\* header['date'], header['to'], header['from'], header['subject'] of lines
\* 165-172 raise KeyError when the name is missing.
\* A filter that only asks for the Date header.
MissingDateOnly(header) == "date" \notin DOMAIN header

MissingRequired(header) == \E n \in RequiredHeaders : n \notin DOMAIN header

\* The dict of lines 168-175.
BuildRecord(header, msg, tz_locale) ==
  [to |-> HeaderGet(header, "to"),
   from |-> HeaderGet(header, "from"),
   cc |-> HeaderGet(header, "cc"),
   subject |-> HeaderGet(header, "subject"),
   thread_topic |-> HeaderGet(header, "thread-topic"),
   date |-> RenderDate(header["date"], tz_locale),
   body |-> parse_body(msg, DefaultPrefer, DefaultDepth).plain,
   full_text |-> <<>>]

\* OrderedDict.fromkeys gives every message id the value None.
NoRecord ==
  [to |-> None, from |-> None, cc |-> None, subject |-> None,
   thread_topic |-> None,
   date |-> [day |-> 0, minute |-> 0, zone |-> None],
   body |-> Lit(None), full_text |-> <<>>]

\* --------------------------------------------------------- thread grouping

\* msgs.loc[msgs['thr_id'] == thr_id, 'msg_id'].values: the ids of a thread
\* in listing order.
RECURSIVE IdsOfThread(_, _)
IdsOfThread(listing, thr_id) ==
  IF listing = <<>> THEN <<>>
  ELSE (IF listing[1].thr_id = thr_id THEN <<listing[1].msg_id>> ELSE <<>>)
       \o IdsOfThread(Tail(listing), thr_id)

\* list(OrderedDict.fromkeys(msgs['thr_id'].values)): the thread ids in the
\* order of their first appearance.
RECURSIVE ThreadOrder(_)
ThreadOrder(listing) ==
  IF listing = <<>> THEN <<>>
  ELSE LET before == ThreadOrder(SubSeq(listing, 1, Len(listing) - 1))
           t == listing[Len(listing)].thr_id
       IN IF \E k \in 1..Len(before) : before[k] = t THEN before
          ELSE Append(before, t)

\* Lines 149-152. A thread's OrderedDict is [order, recs, first_subject,
\* first_date]: its message ids in order, the value of each, and the two
\* keys line 212 and 213 add (None until then).
NewData(listing) ==
  [t \in {listing[k].thr_id : k \in 1..Len(listing)} |->
     [order |-> IdsOfThread(listing, t),
      recs |-> [m \in {listing[k].msg_id :
                         k \in {j \in 1..Len(listing) : listing[j].thr_id = t}}
                  |-> NoRecord],
      first_subject |-> None,
      first_date |-> None]]

\* Lines 181-189: the values list(set(...))[0] can take once None is
\* removed. The order of a set of strings is not fixed, so any of them.
ThreadTopicChoices(thread) ==
  LET seen == {thread.recs[m].thread_topic : m \in DOMAIN thread.recs} \ {None}
  IN IF seen = {} THEN {""} ELSE seen

\* Lines 191-192.
\* A fill that leaves a message's own Thread-Topic as it is.
FillTopicNever(own, thread_topic) == own

FillTopic(own, thread_topic) == IF own = None THEN thread_topic ELSE own

\* str(x) as an f-string renders it.
Str(x) == IF x = None THEN "None" ELSE x

\* Lines 195-205: the labelled header lines in order, then the body.
FullText(rec) ==
  << <<"**From:**", Str(rec.from)>>, <<"**To:**", Str(rec.to)>>,
     <<"**CC:**", Str(rec.cc)>>, <<"**Subject:**", Str(rec.subject)>>,
     <<"**Thread Topic:**", Str(rec.thread_topic)>>,
     <<"**Date:**", rec.date>>, rec.body >>

\* list(data[thr_id])[-1] of line 211: the key at the last position.
\* The first listed message of the thread instead of the last.
FirstMessageKeyFirstListed(order) == order[1]

FirstMessageKey(order) == order[Len(order)]

\* Lines 222-224: the directory under outdir and the file name.
PathOf(thread, rec) ==
  [dir |-> <<thread.first_date, " - ", thread.first_subject>>,
   name |-> <<StrDatetime(date_parse_rendered(rec.date)), ".md">>]

\* ------------------------------------------------------------ query inputs

\* max_size's default, 20 * 1024 ** 2.
DefaultMaxSize == 20 * 1024 * 1024

DefaultArgs ==
  [begin_date |-> "2018-01-01", end_date |-> "today", label |-> None,
   g_query |-> None, tz_locale |-> "America/New_York", att_get |-> FALSE,
   max_size |-> DefaultMaxSize]

AllArgs ==
  [begin_date : {"2018-01-01", "2018-01-02"},
   end_date : {"today", "2018-01-02", "2018-01-03"},
   label : {None, "INBOX"},
   g_query : {None, "from:a@x.com"},
   tz_locale : {"America/New_York", "UTC"},
   att_get : BOOLEAN,
   max_size : {DefaultMaxSize, 1024}]

\* The run dates tried, as indices of IsoDates (2018-01-02, 2018-01-03).
Todays == {3, 4}

MsgIds == <<"m1", "m2", "m3", "m4", "m5">>
ThreadIds == {"t1", "t2"}
Subjects == {"Hello", "Re: Hello"}

\* Date headers: two of the same minute (the evening of 2018-01-01 in New
\* York, the morning of 2018-01-02 UTC) and one ten hours later.
DateHeaders ==
  {"Tue, 2 Jan 2018 02:00:05 +0000", "Mon, 1 Jan 2018 21:00:40 -0500",
   "Tue, 2 Jan 2018 12:00:00 +0000"}

TextLeaf ==
  [mimeType |-> "text/plain", hasParts |-> FALSE, parts |-> AsList(<<>>),
   body |-> WithData(<<"Q", "Q", "=", "=">>)]

\* A message-get response: its payload's MIME part and the payload's header
\* list, without the header named lacks and without Thread-Topic when topic
\* is None.
MakeMessage(lacks, subject, topic, date) ==
  LET all == << [name |-> "Date", value |-> date],
                [name |-> "From", value |-> "a@x.com"],
                [name |-> "To", value |-> "b@x.com"],
                [name |-> "Subject", value |-> subject],
                [name |-> "Thread-Topic", value |-> topic] >>
      Keep(h) == h.name # lacks /\ ~(h.name = "Thread-Topic" /\ topic = None)
  IN [payload |-> TextLeaf, headers |-> SelectSeq(all, Keep)]

\* Messages that differ in subject and in the day of their date.
StructMessages ==
  {MakeMessage("", s, None, d) :
     s \in Subjects,
     d \in {"Tue, 2 Jan 2018 02:00:05 +0000", "Tue, 2 Jan 2018 12:00:00 +0000"}}

\* Messages whose dates fall in the same minute, or ten hours apart.
ClashMessages == {MakeMessage("", "Hello", None, d) : d \in DateHeaders}

\* Messages that lack a required header, and one that has them all.
LackMessages ==
  {MakeMessage(l, "Hello", None, "Tue, 2 Jan 2018 02:00:05 +0000") :
     l \in {"", "Subject", "Date", "To"}}

\* Messages that differ in the Thread-Topic header.
TopicMessages ==
  {MakeMessage("", "Hello", t, "Tue, 2 Jan 2018 02:00:05 +0000") :
     t \in {None, "Topic A", "Topic B"}}

\* The mailboxes of 1..MaxMsgs messages with distinct ids drawn from a set
\* of messages: what the message-list endpoint returns (listing) and what
\* the message-get endpoint returns for each id (get).
MailboxesOf(msgSet) ==
  UNION {
    {[listing |-> [k \in 1..n |-> [id |-> MsgIds[k], threadId |-> th[k]]],
      get |-> [m \in {MsgIds[k] : k \in 1..n} |->
                 ms[CHOOSE k \in 1..n : MsgIds[k] = m]]] :
       th \in [1..n -> ThreadIds], ms \in [1..n -> msgSet]}
    : n \in 1..MaxMsgs}

SampleMailbox ==
  [listing |-> << [id |-> "m1", threadId |-> "t1"],
                  [id |-> "m2", threadId |-> "t1"] >>,
   get |-> [m \in {"m1", "m2"} |->
              IF m = "m1" THEN MakeMessage("", "Hello", None, "Tue, 2 Jan 2018 02:00:05 +0000")
              ELSE MakeMessage("", "Re: Hello", "Topic A",
                               "Tue, 2 Jan 2018 12:00:00 +0000")]]

NoMailbox == [listing |-> <<>>, get |-> <<>>]

\* The runs of query that are tried: the default arguments on every mailbox
\* of each family, and every argument tuple on one mailbox.
QueryRuns ==
  {[args |-> DefaultArgs, today |-> 3, mailbox |-> mb] :
     mb \in MailboxesOf(StructMessages) \cup MailboxesOf(ClashMessages)
            \cup MailboxesOf(LackMessages) \cup MailboxesOf(TopicMessages)}
  \cup {[args |-> a, today |-> d, mailbox |-> SampleMailbox] :
          a \in AllArgs, d \in Todays}

\* -------------------------------------------------------------------- state

VARIABLES
  pc,        \* where the run is: "start", "list", "fetch", "aggregate",
             \* "first", "write", "done", "raised"; "call", "returned" for a
             \* call of parse_body alone; "idle"
  args,      \* query's arguments
  today,     \* datetime.date.today(), an index of IsoDates
  mailbox,   \* the provider's answers
  query,     \* the local query: the search string
  requests,  \* the requests sent to the provider, in order
  msgs,      \* the DataFrame msgs: rows [msg_id, thr_id]
  data,      \* the OrderedDict data
  i,         \* the index of the running for loop
  files,     \* the files under outdir: path -> content
  writes,    \* the open(path, 'w') calls, in order: [msg_id, path]
  err,       \* the exception that ended the run, "" if none
  call,      \* a call of parse_body alone: [msg, prefer, depth]
  ret        \* what that call returned

vars == <<pc, args, today, mailbox, query, requests, msgs, data, i, files,
          writes, err, call, ret>>

NoCall == [msg |-> [payload |-> TextLeaf], prefer |-> DefaultPrefer, depth |-> 0]
NoRet == [raised |-> FALSE, excepted |-> FALSE, found |-> FALSE,
          parts |-> AsList(<<>>), idx |-> 0, pmime |-> None,
          plain |-> Lit(None), noted |-> FALSE]

\* query is called on a gmail_query object.
Init ==
  /\ \E r \in QueryRuns : args = r.args /\ today = r.today /\ mailbox = r.mailbox
  /\ pc = "start"
  /\ query = <<>> /\ requests = <<>> /\ msgs = <<>> /\ data = <<>>
  /\ i = 0 /\ files = <<>> /\ writes = <<>> /\ err = ""
  /\ call = NoCall /\ ret = NoRet

\* parse_body is called on a message-get response.
InitBody ==
  /\ call \in BodyCalls
  /\ ret = NoRet
  /\ pc = "call"
  /\ args = DefaultArgs /\ today = 0 /\ mailbox = NoMailbox
  /\ query = <<>> /\ requests = <<>> /\ msgs = <<>> /\ data = <<>>
  /\ i = 0 /\ files = <<>> /\ writes = <<>> /\ err = ""

\* ------------------------------------------------------------------ actions

\* Lines 127-140.
BuildQuery ==
  /\ pc = "start"
  /\ LET begin == IsoOf(date_parse_iso(args.begin_date))
         end == EndDate(args.end_date, today)
     IN IF end.raised
        THEN /\ pc' = "raised" /\ err' = "TypeError" /\ UNCHANGED query
        ELSE /\ pc' = "list" /\ UNCHANGED err
             /\ query' = SearchString(begin, end.value, args.label,
                                      args.g_query, args.att_get, args.max_size)
  /\ UNCHANGED <<args, today, mailbox, requests, msgs, data, i, files, writes,
                 call, ret>>

\* Lines 142-152: the message-list request, msgs and the empty data.
ListMessages ==
  /\ pc = "list"
  /\ requests' = Append(requests, [op |-> "list", q |-> query, id |-> None])
  /\ msgs' = [k \in 1..Len(mailbox.listing) |->
                [msg_id |-> mailbox.listing[k].id,
                 thr_id |-> mailbox.listing[k].threadId]]
  /\ data' = NewData(msgs')
  /\ i' = 1
  /\ pc' = "fetch"
  /\ UNCHANGED <<args, today, mailbox, query, files, writes, err, call, ret>>

\* One iteration of the loop of lines 154-175.
GetMessage ==
  /\ pc = "fetch"
  /\ LET thr_id == msgs[i].thr_id
         msg_id == msgs[i].msg_id
         msg == mailbox.get[msg_id]
         header == HeaderDict(msg.headers)
     IN /\ requests' = Append(requests, [op |-> "get", q |-> <<>>, id |-> msg_id])
        /\ IF MissingRequired(header)
           THEN /\ pc' = "raised" /\ err' = "KeyError" /\ UNCHANGED <<data, i>>
           ELSE /\ data' = [data EXCEPT ![thr_id].recs[msg_id] =
                              BuildRecord(header, msg, args.tz_locale)]
                /\ i' = IF i = Len(msgs) THEN 1 ELSE i + 1
                /\ pc' = IF i = Len(msgs) THEN "aggregate" ELSE "fetch"
                /\ UNCHANGED err
  /\ UNCHANGED <<args, today, mailbox, query, msgs, files, writes, call, ret>>

\* One iteration of the loop of lines 177-207.
Aggregate ==
  /\ pc = "aggregate"
  /\ LET thr_id == msgs[i].thr_id
         msg_id == msgs[i].msg_id
     IN \E thread_topic \in ThreadTopicChoices(data[thr_id]) :
          LET rec == data[thr_id].recs[msg_id]
              filled == [rec EXCEPT
                           !.thread_topic = FillTopic(@, thread_topic)]
          IN data' = [data EXCEPT ![thr_id].recs[msg_id] =
                        [filled EXCEPT !.full_text = FullText(filled)]]
  /\ i' = IF i = Len(msgs) THEN 1 ELSE i + 1
  /\ pc' = IF i = Len(msgs) THEN "first" ELSE "aggregate"
  /\ UNCHANGED <<args, today, mailbox, query, requests, msgs, files, writes,
                 err, call, ret>>

\* One iteration of the loop of lines 210-214, over the threads in the
\* order of data's keys.
FirstOfThread ==
  /\ pc = "first"
  /\ LET order == ThreadOrder(msgs)
         thr_id == order[i]
         first_message == data[thr_id].recs[FirstMessageKey(data[thr_id].order)]
     IN /\ data' = [data EXCEPT
                      ![thr_id].first_subject = first_message.subject,
                      ![thr_id].first_date =
                         IsoOf(date_parse_rendered(first_message.date).day)]
        /\ i' = IF i = Len(order) THEN 1 ELSE i + 1
        /\ pc' = IF i = Len(order) THEN "write" ELSE "first"
  /\ UNCHANGED <<args, today, mailbox, query, requests, msgs, files, writes,
                 err, call, ret>>

\* One iteration of the loop of lines 217-227: mkdir, open(path, 'w'), write.
WriteMessage ==
  /\ pc = "write"
  /\ LET thr_id == msgs[i].thr_id
         msg_id == msgs[i].msg_id
         path == PathOf(data[thr_id], data[thr_id].recs[msg_id])
     IN /\ files' = (path :> data[thr_id].recs[msg_id].full_text) @@ files
        /\ writes' = Append(writes, [msg_id |-> msg_id, path |-> path])
  /\ i' = i + 1
  /\ pc' = IF i = Len(msgs) THEN "done" ELSE "write"
  /\ UNCHANGED <<args, today, mailbox, query, requests, msgs, data, err,
                 call, ret>>

\* parse_body(msg, prefer, depth) runs to its return or its raise.
CallParseBody ==
  /\ pc = "call"
  /\ ret' = parse_body(call.msg, call.prefer, call.depth)
  /\ pc' = "returned"
  /\ UNCHANGED <<args, today, mailbox, query, requests, msgs, data, i, files,
                 writes, err, call>>

Next ==
  \/ BuildQuery
  \/ ListMessages
  \/ GetMessage
  \/ Aggregate
  \/ FirstOfThread
  \/ WriteMessage

NextBody == CallParseBody

Spec == Init /\ [][Next]_vars

SpecBody == InitBody /\ [][NextBody]_vars

\* ================================================================== claims

\* ------------------------------------------------- the mailbox, as listed

Listing == mailbox.listing

\* The value of the header called name in the message with id m, None when
\* the message has no such header.
HeaderOf(m, name) ==
  LET hs == mailbox.get[m].headers IN
  IF \E k \in 1..Len(hs) : hs[k].name = name
  THEN hs[CHOOSE k \in 1..Len(hs) : hs[k].name = name].value
  ELSE None

LacksRequired(m) ==
  \E name \in {"To", "From", "Subject", "Date"} : HeaderOf(m, name) = None

\* The positions in the listing of the messages of thread t.
PositionsOf(t) == {k \in 1..Len(Listing) : Listing[k].threadId = t}

ListedThreads == {Listing[k].threadId : k \in 1..Len(Listing)}

\* The message of thread t that is listed last.
LastListed(t) ==
  Listing[CHOOSE k \in PositionsOf(t) : \A j \in PositionsOf(t) : j <= k].id

FirstListed(t) ==
  Listing[CHOOSE k \in PositionsOf(t) : \A j \in PositionsOf(t) : j >= k].id

\* The calendar date, in the zone of the run, of a Date header.
CalendarDate(date_header) ==
  IsoDates[(date_parse_header(date_header) + TzOffset(args.tz_locale))
           \div 86400 + 1]

GetRequests == SelectSeq(requests, LAMBDA r : r.op = "get")
ListRequests == SelectSeq(requests, LAMBDA r : r.op = "list")

\* ----------------------------------------------------------------------- C4
\* C4 (as claimed): after a query that completes, there is one file per
\* listed message: the messages were written to pairwise different paths and
\* every message's full text is the final content of the file it was
\* written to.
C4_OneFilePerMessage ==
  pc = "done" =>
    /\ Cardinality(DOMAIN files) = Len(Listing)
    /\ \A k \in 1..Len(writes) :
         files[writes[k].path] =
           data[msgs[k].thr_id].recs[writes[k].msg_id].full_text

\* ----------------------------------------------------------------------- C5
\* The day the search must end before: the day after the end date.
C5_DayAfterEnd ==
  IF args.end_date = "today" THEN IsoDates[today + 1]
  ELSE IsoDates[date_parse_iso(args.end_date) + 1]

\* C5 (as claimed): for 'today' and for an ISO end date alike, query builds
\* a search string that starts with after:<begin date> before:<the day after
\* the end date> and goes on to the message-list request without raising.
C5_QueryBuiltForEveryEndDate ==
  pc # "start" =>
    /\ err # "TypeError"
    /\ Len(query) >= 2
    /\ query[1] = <<"after:", args.begin_date>>
    /\ query[2] = <<"before:", C5_DayAfterEnd>>

\* ----------------------------------------------------------------------- C6
\* The search string of the run that differs from this one in att_get only.
C6_OtherRunString ==
  SearchString(args.begin_date, IsoDates[today + 1], args.label, args.g_query,
               ~args.att_get, args.max_size)

\* C6 (as claimed): the run that differs only in att_get sends the same
\* search string to the message-list endpoint.
C6_SearchStringIgnoresAttGet ==
  \A k \in 1..Len(ListRequests) : ListRequests[k].q = C6_OtherRunString

\* The clauses every run sends, whatever att_get and max_size are.
C6_CommonClauses ==
  << <<"after:", args.begin_date>>, <<"before:", IsoDates[today + 1]>> >>
  \o (IF args.label = None THEN <<>>
      ELSE << <<"label:", IF args.label = "INBOX" THEN "inbox" ELSE args.label>> >>)
  \o (IF args.g_query = None THEN <<>> ELSE << <<"", args.g_query>> >>)

\* C6 (amended): the attachment flag downloads nothing, but it changes the
\* search string: with att_get the string sent is the string sent without
\* it followed by the one clause smaller:<max_size>; without att_get,
\* max_size has no effect on the string.
C6_AttGetAppendsSmallerClause ==
  \A k \in 1..Len(ListRequests) :
     ListRequests[k].q =
       IF args.att_get
       THEN Append(C6_CommonClauses, <<"smaller:", ToString(args.max_size)>>)
       ELSE C6_CommonClauses

C6_Witness ==
  /\ Len(ListRequests) = 1
  /\ args.att_get
  /\ args.max_size = 1024
  /\ args.label = "INBOX"

\* ----------------------------------------------------------------------- C7
\* The messages of thread t that carry a Thread-Topic header.
C7_Carriers(t) ==
  {k \in PositionsOf(t) : HeaderOf(Listing[k].id, "Thread-Topic") # None}

\* C7: once the aggregation pass is over, in a thread where exactly one
\* message carries a thread-topic T every message has thread-topic T, and in
\* a thread where none does every message has the empty string; and no
\* record whose full text is rendered has a null thread-topic.
C7_ThreadTopicShared ==
  /\ pc \in {"first", "write", "done"} =>
       \A t \in ListedThreads :
         /\ Cardinality(C7_Carriers(t)) = 1 =>
              \A k \in PositionsOf(t) :
                data[t].recs[Listing[k].id].thread_topic =
                  HeaderOf(Listing[CHOOSE c \in C7_Carriers(t) : TRUE].id,
                           "Thread-Topic")
         /\ C7_Carriers(t) = {} =>
              \A k \in PositionsOf(t) :
                data[t].recs[Listing[k].id].thread_topic = ""
  /\ pc \in {"aggregate", "first", "write", "done"} =>
       \A t \in ListedThreads : \A m \in DOMAIN data[t].recs :
         data[t].recs[m].full_text # <<>> =>
           /\ data[t].recs[m].thread_topic # None
           /\ data[t].recs[m].full_text[5][2] # "None"

\* A thread of three messages of which only the last listed carries a topic,
\* beside a run where another thread carries none.
C7_Witness ==
  /\ pc = "done"
  /\ \E t \in ListedThreads :
       /\ Cardinality(PositionsOf(t)) = MaxMsgs
       /\ C7_Carriers(t) = {MaxMsgs}
       /\ \A k \in PositionsOf(t) :
            data[t].recs[Listing[k].id].thread_topic = "Topic A"

C9_FetchesBeforeWrites ==
  /\ Len(GetRequests) <= Len(Listing)
  /\ \A k \in 1..Len(GetRequests) : GetRequests[k].id = Listing[k].id
  /\ (writes # <<>> \/ DOMAIN files # {} \/ pc = "done") =>
       /\ Len(GetRequests) = Len(Listing)
       /\ \A k \in 1..Len(Listing) :
            data[Listing[k].threadId].recs[Listing[k].id] # NoRecord
  /\ (\E k \in 1..Len(Listing) : LacksRequired(Listing[k].id)) =>
       /\ writes = <<>>
       /\ DOMAIN files = {}
       /\ pc \notin {"write", "done"}

\* The run aborted at the third listed message, after two were fetched.
C9_Witness ==
  /\ pc = "raised"
  /\ err = "KeyError"
  /\ Len(GetRequests) = 3
  /\ ~LacksRequired(Listing[1].id)
  /\ ~LacksRequired(Listing[2].id)
  /\ data[Listing[1].threadId].recs[Listing[1].id] # NoRecord
  /\ DOMAIN files = {}

\* --------------------------------------------- the MIME tree, as received

Root == call.msg.payload

IsText(part) == part.mimeType \in {"text/plain", "text/html"}
TextIn(list) == \E j \in 1..Len(list) : IsText(list[j])

\* The lists of siblings at level k of the tree, the root alone being the
\* list of level 0.
RECURSIVE ListsAt(_)
ListsAt(k) ==
  IF k = 0 THEN {<<Root>>}
  ELSE {L[j].parts.items : <<L, j>> \in
          {<<L, j>> \in ListsAt(k - 1) \X (1..MaxNodes) :
             j <= Len(L) /\ L[j].hasParts}}

\* The list of siblings at level k on the chain of first children: the
\* root, its children, the children of its first child, and so on. Empty
\* where the chain has ended.
RECURSIVE ChainLevel(_)
ChainLevel(k) ==
  IF k = 0 THEN <<Root>>
  ELSE LET up == ChainLevel(k - 1) IN
       IF up = <<>> \/ ~up[1].hasParts THEN <<>> ELSE up[1].parts.items

\* The levels below the depth bound of the call.
Levels == 0..(call.depth - 1)

BodyReturned == pc = "returned" /\ call.prefer \in {"text/plain", "text/html"}

\* ----------------------------------------------------------------------- C1
\* C1 (as claimed): when a text/plain or text/html part sits at a level
\* within the depth bound, anywhere in the tree, the walk ends with found
\* and with the list of siblings of such a part as its result.
C1_FoundWhereverItSits ==
  (BodyReturned /\ \E k \in Levels : \E L \in ListsAt(k) : TextIn(L)) =>
    /\ ret.found
    /\ \E k \in Levels : \E L \in ListsAt(k) :
         TextIn(L) /\ ret.parts.items = L

\* The first level of the chain of first children that holds a text part.
C1_ChainHits == {k \in Levels : TextIn(ChainLevel(k))}
C1_FirstHit == CHOOSE k \in C1_ChainHits : \A j \in C1_ChainHits : k <= j

\* C1 (amended): when a text/plain or text/html part sits at a level within
\* the depth bound on the chain of first children (among the root, the
\* root's children, the children of the first of those, and so on), the walk
\* ends with found and with the list of siblings at the first such level as
\* its result; a text part that sits only under a later sibling is not
\* found.
C1_FoundOnFirstChildChain ==
  BodyReturned =>
    IF C1_ChainHits # {}
    THEN /\ ret.found
         /\ ret.parts.isList
         /\ ret.parts.items = ChainLevel(C1_FirstHit)
    ELSE ~ret.found

\* A text part found at level 2, below a first child that has a sibling.
C1_Witness ==
  /\ BodyReturned
  /\ C1_ChainHits # {}
  /\ C1_FirstHit = 2
  /\ Len(ChainLevel(1)) = 2
  /\ ret.found
  /\ ret.parts.items = ChainLevel(2)

\* ----------------------------------------------------------------------- C2
\* C2 (as claimed): when the tree has no text/plain or text/html part down
\* to the depth bound, parse_body returns the placeholder, also when the
\* parts at the bound carry a payload that decodes.
C2_PlaceholderWhenNoTextPart ==
  (BodyReturned /\ \A k \in 0..call.depth : \A L \in ListsAt(k) : ~TextIn(L)) =>
    ret.plain = Lit("Message body could not be retrieved.")

\* ---------------------------------------------------------------------- C10
\* C10 (as claimed): when the walk ends with found and a payload is decoded,
\* the part it is read from has a type of the acceptance set: the first part
\* of the preferred type when the result list has one, otherwise a part of
\* the other acceptable type.
C10_DecodedPartIsText ==
  (BodyReturned /\ ret.found /\ ~ret.excepted) =>
    LET L == ret.parts.items IN
    /\ IsText(L[ret.idx])
    /\ (\E j \in 1..Len(L) : L[j].mimeType = call.prefer) =>
         /\ L[ret.idx].mimeType = call.prefer
         /\ \A j \in 1..(ret.idx - 1) : L[j].mimeType # call.prefer

\* ----------------------------------------------------------------------- C3
\* The walk meets a part without the children key, or an empty child list,
\* before it meets a text part or the depth bound.
C3_WalkBreaks ==
  \E k \in Levels :
    /\ \A j \in 0..k : ~TextIn(ChainLevel(j))
    /\ ChainLevel(k) = <<>> \/ ~ChainLevel(k)[1].hasParts

\* The part parse_body selected, when it selected one.
C3_Selected == ret.parts.items[ret.idx]
C3_Data == C3_Selected.body.data

C3_BodyMissing ==
  ret.idx = 0 \/ ~C3_Selected.body.hasBody \/ ~C3_Selected.body.hasData

C3_Alphabet ==
  {"A","B","C","D","E","F","G","H","I","J","K","L","M","N","O","P","Q","R",
   "S","T","U","V","W","X","Y","Z","a","b","c","d","e","f","g","h","i","j",
   "k","l","m","n","o","p","q","r","s","t","u","v","w","x","y","z","0","1",
   "2","3","4","5","6","7","8","9","-","_","+","/"}

C3_DataChars(s) == SelectSeq(s, LAMBDA c : c \in C3_Alphabet)
C3_Pads(s) == SelectSeq(s, LAMBDA c : c = "=")
C3_Stripped(s) == SelectSeq(s, LAMBDA c : c \in C3_Alphabet \/ c = "=")

\* s is base64 as an encoder writes it: alphabet characters in quads, the
\* last quad closed by at most two pads, and nothing else.
C3_WellFormed(s) ==
  /\ s = C3_DataChars(s) \o C3_Pads(s)
  /\ (Len(s) % 4) = 0
  /\ Len(C3_Pads(s)) <= 2

\* Once the characters outside the alphabet are dropped, the data
\* characters come first and stop inside a quad that the pads after them do
\* not close.
C3_IncorrectPadding(s) ==
  LET t == C3_Stripped(s)
      n == Len(C3_DataChars(s))
      k == Len(C3_Pads(s))
  IN /\ t = C3_DataChars(s) \o C3_Pads(s)
     /\ \/ (n % 4) = 1
        \/ (n % 4) \in {2, 3} /\ (n % 4) + k < 4

\* The bytes that the alphabet characters d stand for: character k carries
\* six bits, byte j is bits 8j-8 .. 8j-1 of the stream.
C3_Sextet(c) ==
  IF c \in {"-", "+"} THEN 62
  ELSE IF c \in {"_", "/"} THEN 63
  ELSE (CHOOSE k \in 1..62 : B64Chars[k] = c) - 1
C3_Bytes(d) ==
  [j \in 1..((Len(d) * 6) \div 8) |->
     LET q == (8 * (j - 1)) \div 6
         r == (8 * (j - 1)) % 6
         window == C3_Sextet(d[q + 1]) * 64 + C3_Sextet(d[q + 2])
     IN (window \div (2 ^ (4 - r))) % 256]
C3_IsAscii(b) == \A j \in 1..Len(b) : b[j] < 128

\* The decoded bytes hold a byte no UTF-8 text holds.
C3_NotUtf8(s) ==
  LET bin == urlsafe_b64decode(s) IN
  bin.ok /\ \E k \in 1..Len(bin.bytes) :
              bin.bytes[k] \in {192, 193} \cup 245..255

\* C3 (as claimed): parse_body with the default preferred type never raises,
\* and a part without the children key, an empty child list, a missing body
\* or data field, a payload that is not well-formed base64 or not UTF-8 each
\* end with the placeholder returned.
C3_AnyFailureGivesPlaceholder ==
  (pc = "returned" /\ call.prefer = "text/plain") =>
    /\ ~ret.raised
    /\ (\/ C3_WalkBreaks
        \/ C3_BodyMissing
        \/ ~C3_WellFormed(C3_Data)
        \/ C3_NotUtf8(C3_Data)) =>
         ret.plain = Lit("Message body could not be retrieved.")

\* C3 (amended): parse_body with the default preferred type never raises,
\* and a part without the children key, an empty child list, a missing body
\* or data field, a payload with incorrect padding or one that is not UTF-8
\* each end with the placeholder returned. A payload is not rejected for
\* characters outside the base64 alphabet: they are skipped, and when the
\* remaining characters are well-formed base64 of ASCII text, that text is
\* returned.
C3_RaisingFailureGivesPlaceholder ==
  (pc = "returned" /\ call.prefer = "text/plain") =>
    /\ ~ret.raised
    /\ (\/ C3_WalkBreaks
        \/ C3_BodyMissing
        \/ C3_IncorrectPadding(C3_Data)
        \/ C3_NotUtf8(C3_Data)) =>
         ret.plain = Lit("Message body could not be retrieved.")
    /\ (~C3_WalkBreaks /\ ~C3_BodyMissing /\ C3_WellFormed(C3_Stripped(C3_Data))
        /\ C3_IsAscii(C3_Bytes(C3_DataChars(C3_Data)))) =>
         ret.plain = [lit |-> "", cps |-> C3_Bytes(C3_DataChars(C3_Data))]

\* A selected part whose payload stops inside a quad.
C3_Witness ==
  /\ pc = "returned" /\ call.prefer = "text/plain"
  /\ ~C3_WalkBreaks /\ ~C3_BodyMissing
  /\ C3_Data = <<"Q", "*", "Q", "=">>
  /\ C3_IncorrectPadding(C3_Data)
  /\ ret.plain = Lit("Message body could not be retrieved.")

====
